---- MODULE Spec2Model ----
(***************************************************************************)
(* The route page (src/src/app/route/page.tsx): a React component whose    *)
(* effect reads the URL search parameters, validates them, and starts an   *)
(* asynchronous route calculation whose settlement updates the component   *)
(* state (routes, isLoading, error).                                       *)
(*                                                                         *)
(* Encoding of JavaScript values:                                          *)
(*   - a string is a sequence of one-character strings;                    *)
(*   - a nullable value is a sequence of length <= 1: null is << >> and    *)
(*     the value v is << v >>;                                             *)
(*   - a number is a record [isNaN, value] with an integer value.          *)
(***************************************************************************)
EXTENDS Integers, Sequences, FiniteSets, TLC

VARIABLES
    mounted,        \* the mount effect has run
    routes,         \* useState<RouteInfo[]>([])
    isLoading,      \* useState(true)
    error,          \* useState<string | null>(null)
    userLocation,   \* useState<UserLocation | null>(null)
    emergencyType,  \* useState<EmergencyCategory | null>(null)
    toast,          \* the toast shown last
    inflight,       \* ids of the fetchRoutes calls suspended at their await
    requestSeq,     \* how many times the effect has run
    lastEvent       \* history: the step taken last and the request it belongs to

vars == <<mounted, routes, isLoading, error, userLocation,
          emergencyType, toast, inflight, requestSeq, lastEvent>>

visible == <<routes, isLoading, error>>

\* Largest number of effect runs (mount plus parameter changes) explored.
MaxRequests == 3

----------------------------------------------------------------------------
\* JavaScript values

null == << >>

Some(v) == << v >>

\* JavaScript truthiness of a string | null: null and "" are falsy.
Truthy(s) == s # null /\ s[1] # << >>

NaN == [isNaN |-> TRUE, value |-> 0]

Num(n) == [isNaN |-> FALSE, value |-> n]

Digits == <<"0", "1", "2", "3", "4", "5", "6", "7", "8", "9">>

IsDigit(c) == \E i \in 1..10 : Digits[i] = c

DigitVal(c) == (CHOOSE i \in 1..10 : Digits[i] = c) - 1

IsWhitespace(c) == c = " "

RECURSIVE SkipWhitespace(_)
SkipWhitespace(s) ==
    IF s # << >> /\ IsWhitespace(Head(s)) THEN SkipWhitespace(Tail(s)) ELSE s

\* The longest prefix of digits of s, as <<value, number of digits>>.
RECURSIVE DigitPrefix(_, _, _)
DigitPrefix(s, acc, n) ==
    IF s # << >> /\ IsDigit(Head(s))
    THEN DigitPrefix(Tail(s), acc * 10 + DigitVal(Head(s)), n + 1)
    ELSE <<acc, n>>

\* parseFloat on strings without a decimal point or exponent: leading
\* whitespace is skipped, an optional sign is read, then the longest run
\* of digits; no digits gives NaN, trailing characters are ignored.
parseFloat(s) ==
    LET t    == SkipWhitespace(s)
        neg  == t # << >> /\ Head(t) = "-"
        sgn  == t # << >> /\ Head(t) \in {"-", "+"}
        body == IF sgn THEN Tail(t) ELSE t
        d    == DigitPrefix(body, 0, 0)
    IN  IF d[2] = 0 THEN NaN
        ELSE Num(IF neg THEN 0 - d[1] ELSE d[1])

RECURSIVE NatToString(_)
NatToString(n) ==
    IF n < 10 THEN <<Digits[n + 1]>>
    ELSE NatToString(n \div 10) \o <<Digits[(n % 10) + 1]>>

\* Number.prototype.toFixed(4) of an integer-valued number or NaN.
toFixed4(x) ==
    IF x.isNaN THEN <<"N", "a", "N">>
    ELSE (IF x.value < 0 THEN <<"-">> ELSE << >>)
         \o NatToString(IF x.value < 0 THEN 0 - x.value ELSE x.value)
         \o <<".", "0", "0", "0", "0">>

----------------------------------------------------------------------------
\* Simulation data

SIMULATED_HOSPITALS ==
    << [id |-> "hosp1", name |-> "City General Hospital", phone |-> "555-1234"],
       [id |-> "hosp2", name |-> "St. Luke's Medical Center", phone |-> "555-5678"],
       [id |-> "hosp3", name |-> "County Urgent Care", phone |-> "555-9101"] >>

\* Mutant: the primary flag is put on the last route instead of the first.
simulateRouteCalculation_PrimaryLast ==
    << [id |-> "route1", hospital |-> SIMULATED_HOSPITALS[1], distance |-> "3.2 km",
        time |-> "8 mins", trafficStatus |-> "Light traffic", isPrimary |-> FALSE],
       [id |-> "route2", hospital |-> SIMULATED_HOSPITALS[2], distance |-> "4.1 km",
        time |-> "10 mins", trafficStatus |-> "Moderate traffic", isPrimary |-> FALSE],
       [id |-> "route3", hospital |-> SIMULATED_HOSPITALS[3], distance |-> "5.5 km",
        time |-> "12 mins", trafficStatus |-> "Light traffic", isPrimary |-> TRUE] >>

\* The list simulateRouteCalculation resolves with.
simulateRouteCalculation ==
    << [id |-> "route1", hospital |-> SIMULATED_HOSPITALS[1], distance |-> "3.2 km",
        time |-> "8 mins", trafficStatus |-> "Light traffic", isPrimary |-> TRUE],
       [id |-> "route2", hospital |-> SIMULATED_HOSPITALS[2], distance |-> "4.1 km",
        time |-> "10 mins", trafficStatus |-> "Moderate traffic", isPrimary |-> FALSE],
       [id |-> "route3", hospital |-> SIMULATED_HOSPITALS[3], distance |-> "5.5 km",
        time |-> "12 mins", trafficStatus |-> "Light traffic", isPrimary |-> FALSE] >>

\* The values the awaited calculation can resolve with: the simulated list,
\* and the empty list of the "no routes found" scenario (line 38) that
\* fetchRoutes tests for at line 106.
CalculationResults == {simulateRouteCalculation, << >>}

----------------------------------------------------------------------------
\* Inputs: the values searchParams.get can return for each parameter.

RawLat == {null, Some(<<"4", "5">>), Some(<<"a">>)}

RawLng == {null, Some(<<"-", "9", "1">>), Some(<<"2", "0", "0">>)}

RawAddress == {null, Some(<< >>), Some(<<" ">>), Some(<<"M", "a", "i", "n">>)}

RawType == {null, Some(<< >>), Some(<<"c", "a", "r", "d", "i", "a", "c">>)}

Params == [lat : RawLat, lng : RawLng, address : RawAddress, emergencyType : RawType]

Event(kind, id) == [kind |-> kind, id |-> id]

\* The messages passed to setError.
TypeMissingError == "Emergency type is missing."

LocationMissingError == "User location is missing."

NoRoutesError == "Could not find any nearby medical facilities or routes."

RoutingError == "Failed to calculate routes. Please try again later."

----------------------------------------------------------------------------
\* The effect (lines 72-121)

coordsLabel(lat, lng) ==
    <<"C", "o", "o", "r", "d", "s", ":", " ">> \o toFixed4(parseFloat(lat))
        \o <<",", " ">> \o toFixed4(parseFloat(lng))

\* locationData as computed at lines 86-91 (null when no branch applies).
locationData(lat, lng, address) ==
    IF Truthy(lat) /\ Truthy(lng)
    THEN Some([latitude  |-> Some(parseFloat(lat[1])),
               longitude |-> Some(parseFloat(lng[1])),
               address   |-> IF Truthy(address) THEN address[1]
                             ELSE coordsLabel(lat[1], lng[1])])
    ELSE IF Truthy(address)
    THEN Some([latitude |-> null, longitude |-> null, address |-> address[1]])
    ELSE null

Toast(title, description) == Some([title |-> title, description |-> description])

\* Mutant: the branch forgets setIsLoading(false).
RejectType_KeepsLoading(p) ==
    /\ ~Truthy(p.emergencyType)
    /\ error' = Some(TypeMissingError)
    /\ toast' = Toast("Error", "Emergency type missing. Please go back.")
    /\ lastEvent' = Event("rejectType", requestSeq + 1)
    /\ UNCHANGED <<isLoading, routes, userLocation, emergencyType, inflight>>

\* Lines 78-83: the emergency type is missing.
RejectType(p) ==
    /\ ~Truthy(p.emergencyType)
    /\ error' = Some(TypeMissingError)
    /\ isLoading' = FALSE
    /\ toast' = Toast("Error", "Emergency type missing. Please go back.")
    /\ lastEvent' = Event("rejectType", requestSeq + 1)
    /\ UNCHANGED <<routes, userLocation, emergencyType, inflight>>

\* Mutant: the branch forgets setError.
RejectLocation_NoError(p) ==
    /\ Truthy(p.emergencyType)
    /\ locationData(p.lat, p.lng, p.address) = null
    /\ emergencyType' = p.emergencyType
    /\ isLoading' = FALSE
    /\ toast' = Toast("Error", "Location missing. Please go back.")
    /\ lastEvent' = Event("rejectLocation", requestSeq + 1)
    /\ UNCHANGED <<error, routes, userLocation, inflight>>

\* Lines 84-98: the type is set, no location can be built.
RejectLocation(p) ==
    /\ Truthy(p.emergencyType)
    /\ locationData(p.lat, p.lng, p.address) = null
    /\ emergencyType' = p.emergencyType
    /\ error' = Some(LocationMissingError)
    /\ isLoading' = FALSE
    /\ toast' = Toast("Error", "Location missing. Please go back.")
    /\ lastEvent' = Event("rejectLocation", requestSeq + 1)
    /\ UNCHANGED <<routes, userLocation, inflight>>

\* Lines 84-105 and 120: type and location are set and fetchRoutes runs up
\* to its await, handing locationData and type to the calculation.  The
\* calculation never reads its arguments (lines 21-41), so the suspended
\* call is recorded by its position in the order of the effect's runs.
StartFetch(p) ==
    /\ Truthy(p.emergencyType)
    /\ locationData(p.lat, p.lng, p.address) # null
    /\ emergencyType' = p.emergencyType
    /\ userLocation' = locationData(p.lat, p.lng, p.address)
    /\ isLoading' = TRUE
    /\ error' = null
    /\ inflight' = inflight \cup {requestSeq + 1}
    /\ lastEvent' = Event("start", requestSeq + 1)
    /\ UNCHANGED <<routes, toast>>

\* One run of the effect with the parameters p.
useEffect(p) ==
    /\ requestSeq' = requestSeq + 1
    /\ (RejectType(p) \/ RejectLocation(p) \/ StartFetch(p))

\* The effect runs once after the first render, with the URL's parameters.
MountEffect ==
    /\ ~mounted
    /\ mounted' = TRUE
    /\ \E p \in Params : useEffect(p)

\* The URL's parameters change and the effect runs again (line 121).
ParamsChange ==
    /\ mounted
    /\ requestSeq < MaxRequests
    /\ UNCHANGED mounted
    /\ \E p \in Params : useEffect(p)

----------------------------------------------------------------------------
\* Settlement of an awaited calculation (lines 105-117)

\* Mutant: the length check of line 106 is missing.
FetchResolved_NoEmptyCheck(r, calculatedRoutes) ==
    /\ r \in inflight
    /\ inflight' = inflight \ {r}
    /\ routes' = calculatedRoutes
    /\ isLoading' = FALSE
    /\ lastEvent' = Event(IF Len(calculatedRoutes) = 0 THEN "empty" ELSE "routes", r)
    /\ UNCHANGED <<error, toast, mounted, userLocation, emergencyType, requestSeq>>

\* Mutant: a non-empty result also calls setError(null).
FetchResolved_ClearsError(r, calculatedRoutes) ==
    /\ r \in inflight
    /\ inflight' = inflight \ {r}
    /\ IF Len(calculatedRoutes) = 0
       THEN /\ error' = Some(NoRoutesError)
            /\ toast' = Toast("No Routes",
                   "Could not find routes. Try expanding search or checking location.")
       ELSE error' = null /\ UNCHANGED toast
    /\ routes' = calculatedRoutes
    /\ isLoading' = FALSE
    /\ lastEvent' = Event(IF Len(calculatedRoutes) = 0 THEN "empty" ELSE "routes", r)
    /\ UNCHANGED <<mounted, userLocation, emergencyType, requestSeq>>

\* The calculation of request r resolves with calculatedRoutes.
FetchResolved(r, calculatedRoutes) ==
    /\ r \in inflight
    /\ inflight' = inflight \ {r}
    /\ IF Len(calculatedRoutes) = 0
       THEN /\ error' = Some(NoRoutesError)
            /\ toast' = Toast("No Routes",
                   "Could not find routes. Try expanding search or checking location.")
       ELSE UNCHANGED <<error, toast>>
    /\ routes' = calculatedRoutes
    /\ isLoading' = FALSE
    /\ lastEvent' = Event(IF Len(calculatedRoutes) = 0 THEN "empty" ELSE "routes",
                          r)
    /\ UNCHANGED <<mounted, userLocation, emergencyType, requestSeq>>

\* Mutant: the catch block forgets setError.
FetchRejected_NoError(r) ==
    /\ r \in inflight
    /\ inflight' = inflight \ {r}
    /\ toast' = Toast("Routing Error", "Failed to calculate routes.")
    /\ isLoading' = FALSE
    /\ lastEvent' = Event("throw", r)
    /\ UNCHANGED <<error, mounted, routes, userLocation, emergencyType, requestSeq>>

\* Mutant: setIsLoading(false) sits at the end of the try block instead of
\* in a finally block, so a throw skips it.
FetchRejected_NoFinally(r) ==
    /\ r \in inflight
    /\ inflight' = inflight \ {r}
    /\ error' = Some(RoutingError)
    /\ toast' = Toast("Routing Error", "Failed to calculate routes.")
    /\ lastEvent' = Event("throw", r)
    /\ UNCHANGED <<isLoading, mounted, routes, userLocation, emergencyType, requestSeq>>

\* The calculation of request r throws: the outcome the catch block of
\* lines 111-114 handles.  The simulated calculation as shipped never
\* throws and never resolves with an empty list; both outcomes are kept
\* because fetchRoutes is written against them.
FetchRejected(r) ==
    /\ r \in inflight
    /\ inflight' = inflight \ {r}
    /\ error' = Some(RoutingError)
    /\ toast' = Toast("Routing Error", "Failed to calculate routes.")
    /\ isLoading' = FALSE
    /\ lastEvent' = Event("throw", r)
    /\ UNCHANGED <<mounted, routes, userLocation, emergencyType, requestSeq>>

Resolve == \E r \in inflight : \E c \in CalculationResults : FetchResolved(r, c)

Reject == \E r \in inflight : FetchRejected(r)

----------------------------------------------------------------------------
\* Rendering (lines 123-169)

primaryRoute ==
    IF \E i \in 1..Len(routes) : routes[i].isPrimary
    THEN Some(routes[CHOOSE i \in 1..Len(routes) :
                  /\ routes[i].isPrimary
                  /\ \A j \in 1..(i - 1) : ~routes[j].isPrimary])
    ELSE null

alternativeRoutes == SelectSeq(routes, LAMBDA r : ~r.isPrimary)

\* The view the component returns.
View ==
    IF isLoading THEN "Loading"
    ELSE IF error # null THEN "Error"
    ELSE "Routes"

----------------------------------------------------------------------------

Init ==
    /\ mounted = FALSE
    /\ routes = << >>
    /\ isLoading = TRUE
    /\ error = null
    /\ userLocation = null
    /\ emergencyType = null
    /\ toast = null
    /\ inflight = {}
    /\ requestSeq = 0
    /\ lastEvent = Event("init", 0)

Next == MountEffect \/ ParamsChange \/ Resolve \/ Reject

Spec == Init /\ [][Next]_vars

\* The timer of line 23 always fires, so every suspended calculation settles,
\* and React always runs the mount effect.
Settle(r) == (\E c \in CalculationResults : FetchResolved(r, c)) \/ FetchRejected(r)

FairSpec ==
    /\ Spec
    /\ WF_vars(MountEffect)
    /\ \A r \in 1..MaxRequests : WF_vars(Settle(r))

----------------------------------------------------------------------------
\* Vocabulary of the properties

\* The step is a run of the effect that starts fetchRoutes.
ValidSubmit == \E p \in Params : useEffect(p) /\ StartFetch(p)

\* A string | null that is null, empty or whitespace only.
Blank(s) == s = null \/ SkipWhitespace(s[1]) = << >>

\* The invariant of a Location: an address or coordinates are present, and
\* coordinates are two finite numbers within [-90,90] and [-180,180].
LocationInvariant(loc) ==
    /\ loc.latitude # null \/ ~Blank(Some(loc.address))
    /\ loc.latitude # null <=> loc.longitude # null
    /\ loc.latitude # null =>
         /\ ~loc.latitude[1].isNaN /\ ~loc.longitude[1].isNaN
         /\ loc.latitude[1].value >= -90 /\ loc.latitude[1].value <= 90
         /\ loc.longitude[1].value >= -180 /\ loc.longitude[1].value <= 180

SettledKinds == {"routes", "empty", "throw"}

----------------------------------------------------------------------------
\* C1: the settlement of a superseded calculation (a newer request has been
\* submitted and is still in flight) changes neither isLoading, routes nor
\* error.
C1_StaleSettlementIgnored ==
    [][\A r \in inflight :
          (r < requestSeq /\ requestSeq \in inflight /\ Settle(r))
              => UNCHANGED visible]_vars

\* C2: a run of the effect without emergencyType, whatever lat, lng and
\* address are, ends in the error view with the missing-type message, does
\* no location resolution (userLocation and emergencyType keep their values)
\* and starts no calculation.
C2_MissingTypeRejected ==
    [][\A p \in Params :
          (~Truthy(p.emergencyType) /\ useEffect(p))
              => /\ error' = Some(TypeMissingError)
                 /\ View' = "Error"
                 /\ userLocation' = userLocation
                 /\ emergencyType' = emergencyType
                 /\ inflight' = inflight]_vars

\* A rejection for a missing type while an earlier calculation is in flight.
C2_Witness ==
    /\ lastEvent.kind = "rejectType"
    /\ error = Some(TypeMissingError)
    /\ ~isLoading
    /\ inflight # {}
    /\ lastEvent.id \notin inflight

\* C3: a run of the effect with an emergencyType, no coordinates and an
\* absent, empty or whitespace-only address ends in the error view with the
\* location message and starts no calculation.
C3_BlankAddressRejected ==
    [][\A p \in Params :
          (/\ Truthy(p.emergencyType)
           /\ p.lat = null /\ p.lng = null
           /\ Blank(p.address)
           /\ useEffect(p))
              => /\ error' = Some(LocationMissingError)
                 /\ View' = "Error"
                 /\ inflight' = inflight]_vars

\* C4: the location handed to the calculation (the one StartFetch has just
\* stored in userLocation) satisfies the Location invariant.
C4_HandedLocationValid ==
    lastEvent.kind = "start" => LocationInvariant(userLocation[1])

\* C5 as stated: after a calculation resolves with zero routes the page is
\* not in the view a thrown calculation leads to (the error view).
C5_EmptyNotShownAsFailure ==
    lastEvent.kind = "empty" => View # "Error"

\* C5 as amended: a calculation that resolves with zero routes leaves the
\* page in the error view with no routes and the no-routes message; a thrown
\* calculation leaves it in the same view with the routing-failure message.
C5_EmptyShownAsError ==
    /\ lastEvent.kind = "empty" =>
          View = "Error" /\ routes = << >> /\ error = Some(NoRoutesError)
    /\ lastEvent.kind = "throw" =>
          View = "Error" /\ error = Some(RoutingError)

C5_Witness ==
    /\ lastEvent.kind = "empty"
    /\ lastEvent.id = requestSeq
    /\ error = Some(NoRoutesError)
    /\ inflight = {}

\* C6: when the calculation of the latest request throws, the page is in the
\* error view with the routing-failure message and routes is left as it was;
\* the next valid submit after a throw puts the page back into Loading with
\* error cleared.
C6_ThrowConfined ==
    [][/\ \A r \in inflight :
             (r = requestSeq /\ FetchRejected(r))
                 => /\ error' = Some(RoutingError)
                    /\ View' = "Error"
                    /\ routes' = routes
       /\ (lastEvent.kind = "throw" /\ ValidSubmit)
             => View' = "Loading" /\ error' = null]_vars

\* A valid submit while the toast of an earlier throw is still the last one.
C6_Witness ==
    /\ lastEvent.kind = "start"
    /\ toast = Toast("Routing Error", "Failed to calculate routes.")
    /\ isLoading
    /\ error = null

\* C7: if routes is non-empty, exactly one route is primary, it is the first,
\* and it is the one routes.find returns.
C7_OnePrimaryFirst ==
    routes # << >> =>
        /\ Cardinality({i \in 1..Len(routes) : routes[i].isPrimary}) = 1
        /\ routes[1].isPrimary
        /\ primaryRoute = Some(routes[1])
        /\ Len(alternativeRoutes) = Len(routes) - 1

C7_Witness == routes # << >> /\ View = "Routes"

\* C8: every calculation in flight settles and leaves the page out of
\* Loading; whenever the page is Loading it later is not; it returns to
\* Loading only by a run of the effect; and in the end it stays out of
\* Loading.
C8_LoadingEnds ==
    /\ \A r \in 1..MaxRequests :
          (r \in inflight) ~> (r \notin inflight /\ View \in {"Routes", "Error"})
    /\ isLoading ~> ~isLoading
    /\ [][(~isLoading /\ isLoading') => ValidSubmit]_vars
    /\ <>[](~isLoading)

C8_Witness ==
    /\ lastEvent.kind \in SettledKinds
    /\ lastEvent.id = requestSeq
    /\ inflight = {}
    /\ ~isLoading

\* C9: the routes view is only shown with routes to display.
C9_RoutesViewHasRoutes ==
    View = "Routes" => routes # << >>

\* The routes view after more than one request.
C9_Witness ==
    /\ View = "Routes"
    /\ requestSeq > 1
    /\ lastEvent.kind = "routes"

\* C10: a rejected run of the effect leaves the page in the error view; the
\* page leaves the error view, and error becomes null, only by a valid
\* submit, which puts it into Loading; a settlement never sets error to null
\* and never sets isLoading.
C10_ErrorStaysUntilValidSubmit ==
    [][/\ (\E p \in Params : useEffect(p) /\ (RejectType(p) \/ RejectLocation(p)))
             => View' = "Error"
       /\ (View = "Error" /\ View' # "Error")
             => ValidSubmit /\ View' = "Loading" /\ error' = null
       /\ (error # null /\ error' = null) => ValidSubmit
       /\ \A r \in inflight :
             Settle(r) => /\ error # null => error' # null
                          /\ ~isLoading']_vars

\* A calculation started before a rejection settles after it, and the
\* rejection's error is still shown.
C10_Witness ==
    /\ lastEvent.kind = "routes"
    /\ lastEvent.id < requestSeq
    /\ error \in {Some(TypeMissingError), Some(LocationMissingError)}
    /\ View = "Error"

====
